---- MODULE Spec2Model ----
\* The point annotator of src/annotator.py: the PointAnnotator event handlers
\* (on_click, on_key and the operations they dispatch to), and the driver
\* (annotate_image and __main__) that loads the saved geometry, runs one
\* interactive session and rewrites the file.
EXTENDS Integers, Sequences, FiniteSets, TLC

\* ---------------------------------------------------------------- bounds
MaxEvents == 4        \* events handled in one session (Spec)
MaxView == 1          \* of which zoom / pan / reset keys (Spec)
MaxRuns == 2          \* consecutive runs of the program (DriverSpec)
MaxRunEvents == 3     \* events handled in one session (DriverSpec)
MaxPrior == 8         \* segments in the file found by the first run (LoadSpec)
MaxLoadEvents == 2    \* events handled in one session (LoadSpec)
MaxCycleEvents == 16  \* events handled in one session (CycleSpec)
MaxCycleLen == 1      \* points of a segment (CycleSpec)
MaxViewEvents == 3    \* events handled in one session (ViewSpec)
MaxPathEvents == 1    \* events handled in one session (PathSpec)
MantissaBits == 8     \* significand width of the modelled binary floats

\* ------------------------------------------------- floating point numbers
\* A float is the rational <<n, d>> in lowest terms (d > 0) it denotes; every
\* arithmetic operation rounds its exact result to MantissaBits significant
\* bits, ties to even, as the binary floats of the Python code do.
Abs(x) == IF x < 0 THEN -x ELSE x

RECURSIVE GCD(_, _)
GCD(x, y) == IF y = 0 THEN x ELSE GCD(y, x % y)

Q(n, d) ==
  LET g == GCD(Abs(n), Abs(d))
      s == IF d < 0 THEN -1 ELSE 1
  IN  IF n = 0 THEN <<0, 1>> ELSE <<s * (n \div g), s * (d \div g)>>

RECURSIVE Pow2(_)
Pow2(k) == IF k = 0 THEN 1 ELSE 2 * Pow2(k - 1)

RECURSIVE RoundTo(_, _, _, _)
RoundTo(n, d, up, down) ==
  IF n >= d * Pow2(MantissaBits) THEN RoundTo(n, 2 * d, 2 * up, down)
  ELSE IF n < d * Pow2(MantissaBits - 1) THEN RoundTo(2 * n, d, up, 2 * down)
  ELSE LET m == n \div d
           r == n % d
           mm == IF 2 * r > d \/ (2 * r = d /\ m % 2 = 1) THEN m + 1 ELSE m
       IN  Q(mm * up, down)

Float(q) ==
  IF q[1] = 0 THEN <<0, 1>>
  ELSE LET v == RoundTo(Abs(q[1]), q[2], 1, 1)
       IN  IF q[1] < 0 THEN <<-v[1], v[2]>> ELSE v

FAdd(x, y) == Float(Q(x[1] * y[2] + y[1] * x[2], x[2] * y[2]))
FSub(x, y) == Float(Q(x[1] * y[2] - y[1] * x[2], x[2] * y[2]))
FMul(x, y) == Float(Q(x[1] * y[1], x[2] * y[2]))
FDiv(x, y) == Float(Q(x[1] * y[2], x[2] * y[1]))

\* round(x) of a coordinate given in halves (h stands for h/2): the nearest
\* integer, a tie going to the even one.
round(h) ==
  IF h % 2 = 0 THEN h \div 2
  ELSE LET lo == (h - 1) \div 2 IN IF lo % 2 = 0 THEN lo ELSE lo + 1

\* ------------------------------------------------------------ the palettes
self_colors ==
  <<"purple", "red", "blue", "green", "orange", "cyan", "magenta", "yellow">>

colors == <<"pink", "red", "green", "orange", "cyan", "magenta", "yellow">>

\* ------------------------------------------------------------- the display
\* The extent imshow gives the axes, which is also what autoscale() restores
\* (every plotted point lies inside the image).
FullXlim == <<Q(0, 1), Q(100, 1)>>
FullYlim == <<Q(0, 1), Q(60, 1)>>

None == <<>>

\* ax.plot(xs, ys, fmt, color=c): a new line artist
Line2D(id, xs, ys, fmt, c) ==
  [id |-> id, xs |-> xs, ys |-> ys, fmt |-> fmt, color |-> c]

\* "Zoom: {zoom_level:.1f}x": the zoom level to one decimal, in tenths
update_title(a) ==
  LET z == a.zoom_level
      t == (10 * z[1]) \div z[2]
      r == (10 * z[1]) % z[2]
  IN  [a EXCEPT !.title =
         IF 2 * r > z[2] \/ (2 * r = z[2] /\ t % 2 = 1) THEN t + 1 ELSE t]

\* ---------------------------------------------------- PointAnnotator
\* The point lists are Python list objects: heap[r] is the content of the list
\* with reference r, current_segment is a reference and segments holds
\* references, so that two names of one list are told from two equal lists.
PointAnnotator(ax) ==
  [heap |-> <<<<>>>>,
   segments |-> <<>>,
   current_segment |-> 1,
   markers |-> <<>>,
   current_color_index |-> 0,
   initial_xlim |-> None,
   initial_ylim |-> None,
   zoom_level |-> <<1, 1>>,
   xlim |-> ax.xlim,
   ylim |-> ax.ylim,
   lines |-> ax.lines,
   n_lines |-> ax.n_lines,
   title |-> ax.title,
   open |-> TRUE]

update_zoom_level(a) ==
  IF a.initial_xlim = None \/ a.initial_ylim = None THEN a
  ELSE LET current_xrange == FSub(a.xlim[2], a.xlim[1])
           current_yrange == FSub(a.ylim[2], a.ylim[1])
           initial_xrange == FSub(a.initial_xlim[2], a.initial_xlim[1])
           initial_yrange == FSub(a.initial_ylim[2], a.initial_ylim[1])
       IN  update_title(
             [a EXCEPT !.zoom_level =
                FDiv(FAdd(FDiv(initial_xrange, current_xrange),
                          FDiv(initial_yrange, current_yrange)),
                     <<2, 1>>)])

\* zoom leaving the zoom level as it was (no self.update_zoom_level())
zoom_stale(a, factor) ==
  LET xmid == FDiv(FAdd(a.xlim[1], a.xlim[2]), <<2, 1>>)
      ymid == FDiv(FAdd(a.ylim[1], a.ylim[2]), <<2, 1>>)
      xrange == FDiv(FSub(a.xlim[2], a.xlim[1]), factor)
      yrange == FDiv(FSub(a.ylim[2], a.ylim[1]), factor)
  IN  [a EXCEPT
         !.xlim = <<FSub(xmid, FDiv(xrange, <<2, 1>>)),
                    FAdd(xmid, FDiv(xrange, <<2, 1>>))>>,
         !.ylim = <<FSub(ymid, FDiv(yrange, <<2, 1>>)),
                    FAdd(ymid, FDiv(yrange, <<2, 1>>))>>]

\* zoom multiplying the spans by the factor where the code divides
zoom_inverted(a, factor) ==
  LET xmid == FDiv(FAdd(a.xlim[1], a.xlim[2]), <<2, 1>>)
      ymid == FDiv(FAdd(a.ylim[1], a.ylim[2]), <<2, 1>>)
      xrange == FMul(FSub(a.xlim[2], a.xlim[1]), factor)
      yrange == FMul(FSub(a.ylim[2], a.ylim[1]), factor)
  IN  update_zoom_level(
        [a EXCEPT
           !.xlim = <<FSub(xmid, FDiv(xrange, <<2, 1>>)),
                      FAdd(xmid, FDiv(xrange, <<2, 1>>))>>,
           !.ylim = <<FSub(ymid, FDiv(yrange, <<2, 1>>)),
                      FAdd(ymid, FDiv(yrange, <<2, 1>>))>>])

zoom(a, factor) ==
  LET xmid == FDiv(FAdd(a.xlim[1], a.xlim[2]), <<2, 1>>)
      ymid == FDiv(FAdd(a.ylim[1], a.ylim[2]), <<2, 1>>)
      xrange == FDiv(FSub(a.xlim[2], a.xlim[1]), factor)
      yrange == FDiv(FSub(a.ylim[2], a.ylim[1]), factor)
  IN  update_zoom_level(
        [a EXCEPT
           !.xlim = <<FSub(xmid, FDiv(xrange, <<2, 1>>)),
                      FAdd(xmid, FDiv(xrange, <<2, 1>>))>>,
           !.ylim = <<FSub(ymid, FDiv(yrange, <<2, 1>>)),
                      FAdd(ymid, FDiv(yrange, <<2, 1>>))>>])

\* pan keeping the limits inside the image
pan_clamped(a, dx_frac, dy_frac) ==
  LET xrange == FSub(a.xlim[2], a.xlim[1])
      yrange == FSub(a.ylim[2], a.ylim[1])
      clamp(v, full) == IF v[1] * full[1][2] < full[1][1] * v[2] THEN full[1]
                        ELSE IF v[1] * full[2][2] > full[2][1] * v[2] THEN full[2]
                        ELSE v
  IN  [a EXCEPT
         !.xlim = <<clamp(FAdd(a.xlim[1], FMul(dx_frac, xrange)), FullXlim),
                    clamp(FAdd(a.xlim[2], FMul(dx_frac, xrange)), FullXlim)>>,
         !.ylim = <<clamp(FAdd(a.ylim[1], FMul(dy_frac, yrange)), FullYlim),
                    clamp(FAdd(a.ylim[2], FMul(dy_frac, yrange)), FullYlim)>>]

pan(a, dx_frac, dy_frac) ==
  LET xrange == FSub(a.xlim[2], a.xlim[1])
      yrange == FSub(a.ylim[2], a.ylim[1])
  IN  [a EXCEPT
         !.xlim = <<FAdd(a.xlim[1], FMul(dx_frac, xrange)),
                    FAdd(a.xlim[2], FMul(dx_frac, xrange))>>,
         !.ylim = <<FAdd(a.ylim[1], FMul(dy_frac, yrange)),
                    FAdd(a.ylim[2], FMul(dy_frac, yrange))>>]

\* 'h' that also discards the points of the segment in progress
home_discard(a) ==
  update_title(
    [a EXCEPT !.xlim = FullXlim, !.ylim = FullYlim,
              !.initial_xlim = FullXlim, !.initial_ylim = FullYlim,
              !.zoom_level = <<1, 1>>,
              !.heap[a.current_segment] = <<>>])

\* 'h': autoscale, take the limits as the new baseline, zoom level 1.0
home(a) ==
  update_title(
    [a EXCEPT !.xlim = FullXlim, !.ylim = FullYlim,
              !.initial_xlim = FullXlim, !.initial_ylim = FullYlim,
              !.zoom_level = <<1, 1>>])

\* the points of the list self.current_segment refers to
CurrentSegment(a) == a.heap[a.current_segment]

\* self.segments, each reference replaced by the points of its list
Segments(a) == [i \in 1..Len(a.segments) |-> a.heap[a.segments[i]]]

\* x and y arrive in halves
add_point(a, x, y) ==
  LET marker == Line2D(a.n_lines, <<round(x)>>, <<round(y)>>, "+",
                       self_colors[a.current_color_index + 1])
  IN  [a EXCEPT
         !.heap[a.current_segment] = Append(@, <<round(x), round(y)>>),
         !.lines = @ \cup {marker},
         !.n_lines = @ + 1,
         !.markers = Append(@, marker)]

\* complete_segment without its guard: an empty segment is appended too
complete_segment_unguarded(a) ==
  [a EXCEPT
     !.segments = Append(@, a.current_segment),
     !.heap = Append(@, <<>>),
     !.current_segment = Len(a.heap) + 1,
     !.current_color_index = (@ + 1) % Len(self_colors)]

\* complete_segment emptying the list in place (self.current_segment.clear())
\* where the code binds a new one
complete_segment_clear(a) ==
  IF CurrentSegment(a) # <<>>
  THEN [a EXCEPT
          !.segments = Append(@, a.current_segment),
          !.heap[a.current_segment] = <<>>,
          !.current_color_index = (@ + 1) % Len(self_colors)]
  ELSE a

\* complete_segment cycling over the length of the other palette
complete_segment_mod7(a) ==
  IF CurrentSegment(a) # <<>>
  THEN [a EXCEPT
          !.segments = Append(@, a.current_segment),
          !.heap = Append(@, <<>>),
          !.current_segment = Len(a.heap) + 1,
          !.current_color_index = (@ + 1) % Len(colors)]
  ELSE a

\* complete_segment keeping the colour index (no increment)
complete_segment_samecolor(a) ==
  IF CurrentSegment(a) # <<>>
  THEN [a EXCEPT
          !.segments = Append(@, a.current_segment),
          !.heap = Append(@, <<>>),
          !.current_segment = Len(a.heap) + 1]
  ELSE a

\* self.current_segment = [] binds the name to a new list
complete_segment(a) ==
  IF CurrentSegment(a) # <<>>
  THEN [a EXCEPT
          !.segments = Append(@, a.current_segment),
          !.heap = Append(@, <<>>),
          !.current_segment = Len(a.heap) + 1,
          !.current_color_index = (@ + 1) % Len(self_colors)]
  ELSE a

\* remove_last_point taking the oldest marker (self.markers.pop(0))
remove_last_point_first(a) ==
  IF CurrentSegment(a) # <<>>
  THEN LET marker == a.markers[1]
       IN  [a EXCEPT
              !.heap[a.current_segment] = SubSeq(@, 1, Len(@) - 1),
              !.markers = SubSeq(@, 2, Len(@)),
              !.lines = @ \ {marker}]
  ELSE a

\* remove_last_point guarded by the marker list (if self.markers:) where the
\* code tests the current segment
remove_last_point_anymarker(a) ==
  IF a.markers # <<>>
  THEN LET marker == a.markers[Len(a.markers)]
       IN  [a EXCEPT
              !.heap[a.current_segment] = SubSeq(@, 1, Len(@) - 1),
              !.markers = SubSeq(@, 1, Len(@) - 1),
              !.lines = @ \ {marker}]
  ELSE a

remove_last_point(a) ==
  IF CurrentSegment(a) # <<>>
  THEN LET marker == a.markers[Len(a.markers)]
       IN  [a EXCEPT
              !.heap[a.current_segment] = SubSeq(@, 1, Len(@) - 1),
              !.markers = SubSeq(@, 1, Len(@) - 1),
              !.lines = @ \ {marker}]
  ELSE a

\* on_click without the test of event.inaxes
on_click_anywhere(a, event) ==
  IF event.button = 1 THEN add_point(a, event.xdata, event.ydata)
  ELSE IF event.button = 3 THEN remove_last_point(a)
  ELSE a

\* event = [inaxes, button, xdata, ydata]
on_click(a, event) ==
  IF ~event.inaxes THEN a
  ELSE IF event.button = 1 THEN add_point(a, event.xdata, event.ydata)
  ELSE IF event.button = 3 THEN remove_last_point(a)
  ELSE a

\* on_key whose Enter closes the figure without completing the segment
on_key_noflush(a, key) ==
  IF key \in {"z", "Z"} THEN remove_last_point(a)
  ELSE IF key \in {"enter", "return"} THEN [a EXCEPT !.open = FALSE]
  ELSE IF key = " " THEN complete_segment(a)
  ELSE IF key \in {"+", "="} THEN zoom(a, Float(<<6, 5>>))
  ELSE IF key = "-" THEN zoom(a, Float(<<4, 5>>))
  ELSE IF key = "w" THEN pan(a, <<0, 1>>, Float(<<1, 10>>))
  ELSE IF key = "s" THEN pan(a, <<0, 1>>, Float(<<-1, 10>>))
  ELSE IF key = "a" THEN pan(a, Float(<<-1, 10>>), <<0, 1>>)
  ELSE IF key = "d" THEN pan(a, Float(<<1, 10>>), <<0, 1>>)
  ELSE IF key = "h" THEN home(a)
  ELSE a

on_key(a, key) ==
  IF key \in {"z", "Z"} THEN remove_last_point(a)
  ELSE IF key \in {"enter", "return"}
    THEN [complete_segment(a) EXCEPT !.open = FALSE]
  ELSE IF key = " " THEN complete_segment(a)
  ELSE IF key \in {"+", "="} THEN zoom(a, Float(<<6, 5>>))
  ELSE IF key = "-" THEN zoom(a, Float(<<4, 5>>))
  ELSE IF key = "w" THEN pan(a, <<0, 1>>, Float(<<1, 10>>))
  ELSE IF key = "s" THEN pan(a, <<0, 1>>, Float(<<-1, 10>>))
  ELSE IF key = "a" THEN pan(a, Float(<<-1, 10>>), <<0, 1>>)
  ELSE IF key = "d" THEN pan(a, Float(<<1, 10>>), <<0, 1>>)
  ELSE IF key = "h" THEN home(a)
  ELSE a

\* ------------------------------------------------------------ JSON values
\* A JSON value (what json / geojson hold in memory); an object is the
\* sequence of its members in insertion order.
JNum(n) == [k |-> "num", n |-> n, s |-> "", items |-> <<>>]
JStr(s) == [k |-> "str", n |-> 0, s |-> s, items |-> <<>>]
JNull == [k |-> "null", n |-> 0, s |-> "", items |-> <<>>]
JArr(items) == [k |-> "arr", n |-> 0, s |-> "", items |-> items]
JMember(key, v) == [k |-> "member", n |-> 0, s |-> key, items |-> <<v>>]
JObj(members) == [k |-> "obj", n |-> 0, s |-> "", items |-> members]

\* dict.get(key, default)
Get(obj, key, default) ==
  LET hits == {i \in 1..Len(obj.items) : obj.items[i].s = key}
  IN  IF hits = {} THEN default
      ELSE obj.items[CHOOSE i \in hits : \A j \in hits : j <= i].items[1]

\* The text of a file, as its sequence of JSON tokens
Tok(t) == [t |-> t, n |-> 0, s |-> ""]
TokNum(n) == [t |-> "num", n |-> n, s |-> ""]
TokStr(s) == [t |-> "str", n |-> 0, s |-> s]

\* sort_keys=True, over the keys the program writes
KeyOrder == <<"coordinates", "geometry", "properties", "type">>

RECURSIVE SortedBy(_, _)
SortedBy(members, keys) ==
  IF keys = <<>> THEN <<>>
  ELSE SelectSeq(members, LAMBDA m : m.s = Head(keys))
         \o SortedBy(members, Tail(keys))

RECURSIVE json_dumps(_)
RECURSIVE DumpItems(_, _)
DumpItems(items, i) ==
  IF i > Len(items) THEN <<>>
  ELSE (IF i > 1 THEN <<Tok(",")>> ELSE <<>>)
         \o json_dumps(items[i]) \o DumpItems(items, i + 1)

json_dumps(v) ==
  CASE v.k = "num" -> <<TokNum(v.n)>>
    [] v.k = "str" -> <<TokStr(v.s)>>
    [] v.k = "null" -> <<Tok("null")>>
    [] v.k = "arr" -> <<Tok("[")>> \o DumpItems(v.items, 1) \o <<Tok("]")>>
    [] v.k = "member" -> <<TokStr(v.s), Tok(":")>> \o json_dumps(v.items[1])
    [] v.k = "obj" ->
         <<Tok("{")>> \o DumpItems(SortedBy(v.items, KeyOrder), 1) \o <<Tok("}")>>

\* The parser: [ok, val, next], next the index after the value read
Fail == [ok |-> FALSE, val |-> JNull, next |-> 0]

ArrayOf(r) == IF r.ok THEN [r EXCEPT !.val = JArr(r.val)] ELSE Fail
ObjectOf(r) == IF r.ok THEN [r EXCEPT !.val = JObj(r.val)] ELSE Fail
MemberOf(key, r) == IF r.ok THEN [r EXCEPT !.val = JMember(key, r.val)] ELSE Fail

RECURSIVE ParseValue(_, _)
RECURSIVE ParseItems(_, _, _, _)
RECURSIVE ParseMore(_, _, _, _)

\* one element of an array (close = "]") or one member of an object
ParseItem(toks, i, close) ==
  IF close = "]" THEN ParseValue(toks, i)
  ELSE IF i + 1 <= Len(toks) /\ toks[i].t = "str" /\ toks[i + 1].t = ":"
    THEN MemberOf(toks[i].s, ParseValue(toks, i + 2))
  ELSE Fail

\* the elements of an array or the members of an object from index i on,
\* acc the ones read so far
ParseItems(toks, i, close, acc) ==
  IF i > Len(toks) THEN Fail
  ELSE IF toks[i].t = close /\ acc = <<>>
    THEN [ok |-> TRUE, val |-> acc, next |-> i + 1]
  ELSE ParseMore(toks, close, acc, ParseItem(toks, i, close))

\* after the item one: the closing bracket, or a comma and more items
ParseMore(toks, close, acc, one) ==
  IF ~one.ok \/ one.next > Len(toks) THEN Fail
  ELSE IF toks[one.next].t = close
    THEN [ok |-> TRUE, val |-> Append(acc, one.val), next |-> one.next + 1]
  ELSE IF toks[one.next].t = ","
    THEN ParseItems(toks, one.next + 1, close, Append(acc, one.val))
  ELSE Fail

ParseValue(toks, i) ==
  IF i > Len(toks) THEN Fail
  ELSE CASE toks[i].t = "num" -> [ok |-> TRUE, val |-> JNum(toks[i].n), next |-> i + 1]
         [] toks[i].t = "str" -> [ok |-> TRUE, val |-> JStr(toks[i].s), next |-> i + 1]
         [] toks[i].t = "null" -> [ok |-> TRUE, val |-> JNull, next |-> i + 1]
         [] toks[i].t = "[" -> ArrayOf(ParseItems(toks, i + 1, "]", <<>>))
         [] toks[i].t = "{" -> ObjectOf(ParseItems(toks, i + 1, "}", <<>>))
         [] OTHER -> Fail

\* the text is one JSON value and nothing more
Whole(toks, r) ==
  IF r.ok /\ r.next = Len(toks) + 1
  THEN [raised |-> FALSE, val |-> r.val]
  ELSE [raised |-> TRUE, val |-> JNull]

\* json.load: the value, or raised when the text is not one JSON value
json_load(toks) == Whole(toks, ParseValue(toks, 1))

\* a parsed Feature always carries a "geometry" entry (None when the text
\* has none)
to_instance(r) ==
  IF r.raised \/ r.val.k # "obj" THEN r
  ELSE IF Get(r.val, "type", JNull) = JStr("Feature")
         /\ Get(r.val, "geometry", JNull) = JNull
    THEN [r EXCEPT !.val =
            JObj(SelectSeq(r.val.items, LAMBDA m : m.s # "geometry")
                   \o <<JMember("geometry", JNull)>>)]
  ELSE r

geojson_load(toks) == to_instance(json_load(toks))

\* Python lists of [x, y] lists <-> JSON arrays
CoordsToJson(segs) ==
  JArr([i \in 1..Len(segs) |->
    JArr([j \in 1..Len(segs[i]) |->
      JArr([c \in 1..Len(segs[i][j]) |-> JNum(segs[i][j][c])])])])

CoordsFromJson(v) ==
  [i \in 1..Len(v.items) |->
    [j \in 1..Len(v.items[i].items) |->
      [c \in 1..Len(v.items[i].items[j].items) |-> v.items[i].items[j].items[c].n]]]

MultiLineString(coordinates) ==
  JObj(<<JMember("type", JStr("MultiLineString")),
         JMember("coordinates", CoordsToJson(coordinates))>>)

Feature(geometry) ==
  JObj(<<JMember("type", JStr("Feature")),
         JMember("geometry", geometry),
         JMember("properties", JObj(<<>>))>>)

\* -------------------------------------------------------------- the driver
\* A file of the disk: whether it exists, and its text
NoFile == [exists |-> FALSE, text |-> <<>>]
FileOf(v) == [exists |-> TRUE, text |-> json_dumps(v)]

\* A raster image, which is no JSON text: rasterio.open reads it, and a file
\* that is not one makes it raise
RasterImage == [exists |-> TRUE, text |-> <<Tok("II*")>>]
rasterio_open(f) == IF f = RasterImage THEN "" ELSE "RasterioIOError"

\* A path is the sequence of its characters.
\* The number of "f" a string ends with
RECURSIVE TrailingFs(_)
TrailingFs(s) ==
  IF s # <<>> /\ s[Len(s)] = "f"
  THEN 1 + TrailingFs(SubSeq(s, 1, Len(s) - 1)) ELSE 0

\* where \.tif+ matches up to the end of s, 0 if it does not
MatchAtEnd(s) ==
  IF /\ TrailingFs(s) >= 1
     /\ Len(s) - TrailingFs(s) >= 3
     /\ SubSeq(s, Len(s) - TrailingFs(s) - 2, Len(s) - TrailingFs(s))
          = <<".", "t", "i">>
  THEN Len(s) - TrailingFs(s) - 2 ELSE 0

\* re.sub(pattern, repl, s) for a pattern that matches at the end of s alone
SubAtEnd(s, repl) ==
  IF MatchAtEnd(s) = 0 THEN s ELSE SubSeq(s, 1, MatchAtEnd(s) - 1) \o repl

\* output_file = re.sub(r"\.tif+$", ".geojson", input_file); $ matches at
\* the end of the string and before a newline that ends it
output_file(input_file) ==
  IF input_file # <<>> /\ input_file[Len(input_file)] = "\n"
     /\ MatchAtEnd(SubSeq(input_file, 1, Len(input_file) - 1)) # 0
  THEN SubAtEnd(SubSeq(input_file, 1, Len(input_file) - 1),
                <<".", "g", "e", "o", "j", "s", "o", "n">>) \o <<"\n">>
  ELSE SubAtEnd(input_file, <<".", "g", "e", "o", "j", "s", "o", "n">>)

\* The body of the try block of annotate_image: the exception it raises
\* ("" when none) and the value existing_segments is left with
Raised(exc) == [exc |-> exc, segments |-> <<>>]

\* existing_feature["geometry"]["coordinates"] of a MultiLineString
geometry_segments(geometry) ==
  IF geometry.k # "obj" THEN Raised("AttributeError")
  ELSE IF Get(geometry, "type", JNull) # JStr("MultiLineString") THEN Raised("")
  ELSE IF Get(geometry, "coordinates", JNull).k # "arr" THEN Raised("KeyError")
  ELSE [exc |-> "",
        segments |-> CoordsFromJson(Get(geometry, "coordinates", JNull))]

feature_segments(existing_feature) ==
  IF existing_feature.raised THEN Raised("JSONDecodeError")
  ELSE IF existing_feature.val.k # "obj" THEN Raised("AttributeError")
  ELSE geometry_segments(Get(existing_feature.val, "geometry", JObj(<<>>)))

try_load(f) == feature_segments(geojson_load(f.text))

\* except Exception: a warning, and existing_segments stays empty
except_exception(r) == IF r.exc # "" THEN Raised("") ELSE r

\* except ValueError
except_valueerror(r) == IF r.exc = "JSONDecodeError" THEN Raised("") ELSE r

\* load_existing catching the parse error alone (except ValueError)
load_existing_valueerror(f) ==
  IF ~f.exists THEN Raised("") ELSE except_valueerror(try_load(f))

\* "Load existing GeoJSON if it exists": an exception that is not caught
\* would end the program
load_existing(f) ==
  IF ~f.exists THEN Raised("") ELSE except_exception(try_load(f))

\* the axes after imshow and "Plot existing segments"
plot_existing(existing) ==
  [xlim |-> FullXlim,
   ylim |-> FullYlim,
   lines |-> {Line2D(idx - 1,
                     [j \in 1..Len(existing[idx]) |-> existing[idx][j][1]],
                     [j \in 1..Len(existing[idx]) |-> existing[idx][j][2]],
                     "o-", colors[((idx - 1) % Len(colors)) + 1])
                : idx \in 1..Len(existing)},
   n_lines |-> Len(existing),
   title |-> 0]

\* "Set the color index to continue from where we left off"
seed_color_index(existing) == Len(existing) % Len(colors)

new_annotator(existing) ==
  [PointAnnotator(plot_existing(existing)) EXCEPT
     !.current_color_index = seed_color_index(existing)]

\* annotate(), up to plt.show()
annotate(a) ==
  update_title([a EXCEPT !.initial_xlim = a.xlim, !.initial_ylim = a.ylim])

\* annotate() completing the segment in progress before it returns
annotate_return_flush(a) == Feature(MultiLineString(Segments(complete_segment(a))))

\* annotate() returns the feature of the session; annotate_image combines
annotate_return(a) == Feature(MultiLineString(Segments(a)))

\* combine putting the segments of the session first
combine_newfirst(existing, a) ==
  Feature(MultiLineString(Segments(a) \o existing))

\* new_feature["geometry"]["coordinates"]
coordinates(feature) ==
  CoordsFromJson(Get(Get(feature, "geometry", JNull), "coordinates", JNull))

combine(existing, a) ==
  Feature(MultiLineString(existing \o coordinates(annotate_return(a))))

\* ------------------------------------------------------- the state machine
VARIABLES
  argv,               \* sys.argv[1], the path of the image
  image,              \* the file at that path
  file,               \* the file at output_file(argv); when the two paths are
                      \* one, image and file are the same file
  pc,                 \* "main": not running, "show": in plt.show(), "closed":
                      \* the figure is closed, "aborted": ended by an exception
  existing_segments,  \* annotate_image's local
  annotator,          \* the PointAnnotator and its axes
  n_runs,             \* runs of the program finished
  n_events,           \* events of this session handled, Enter aside
  n_view,             \* of which zoom / pan / reset keys
  n_ignored,          \* of which events bound to no operation
  log,                \* the editing events of this session, in order
  file0,              \* the file the first run found
  sessions,           \* the segments each finished session returned
  lim                 \* the limits of the exploration

vars == <<argv, image, file, pc, existing_segments, annotator, n_runs, n_events, n_view,
          n_ignored, log, file0, sessions, lim>>

\* raw pointer positions, in halves: (0.5, 2.5) and (1.5, 3.5)
Positions == {<<1, 5>>, <<3, 7>>}
Buttons == {1, 2, 3}
ViewKeys == {"+", "=", "-", "w", "s", "a", "d", "h"}
BoundKeys == {"z", "Z", " ", "enter", "return"} \cup ViewKeys
Keys == BoundKeys \cup {"x"}

PriorSegment(i) == <<<<i, 0>>, <<i, 1>>>>
PriorSegments(n) == [i \in 1..n |-> PriorSegment(i)]

OtherFiles ==
  {NoFile,
   [exists |-> TRUE, text |-> <<>>],
   [exists |-> TRUE, text |-> <<Tok("{"), TokStr("type")>>],
   FileOf(JArr(<<>>)),
   FileOf(Feature(JNull)),
   FileOf(JObj(<<JMember("type", JStr("Feature"))>>)),
   FileOf(JObj(<<JMember("properties", JObj(<<>>))>>)),
   FileOf(Feature(JObj(<<JMember("type", JStr("LineString")),
                         JMember("coordinates",
                                 JArr(<<JArr(<<JNum(1), JNum(2)>>)>>))>>))),
   FileOf(MultiLineString(PriorSegments(1)))}

SavedFiles ==
  {FileOf(Feature(MultiLineString(PriorSegments(n)))) : n \in 0..MaxPrior}

Blank == [PointAnnotator(plot_existing(<<>>)) EXCEPT !.open = FALSE]

\* python annotator.py m.tif
ImagePath == <<"m", ".", "t", "i", "f">>

InitWith(files, l) ==
  /\ argv = ImagePath
  /\ image = RasterImage
  /\ file \in files
  /\ file0 = file
  /\ pc = "main"
  /\ existing_segments = <<>>
  /\ annotator = Blank
  /\ n_runs = 0
  /\ n_events = 0
  /\ n_view = 0
  /\ n_ignored = 0
  /\ log = <<>>
  /\ sessions = <<>>
  /\ lim = l

Entry(ev, at) == [ev |-> ev, at |-> at]

\* annotate_image after the load: display, annotator, annotate()
Begin(loaded, opened) ==
  IF loaded.exc # "" \/ opened # ""
  THEN /\ pc' = "aborted"
       /\ UNCHANGED <<existing_segments, annotator>>
  ELSE /\ existing_segments' = loaded.segments
       /\ annotator' = annotate(new_annotator(loaded.segments))
       /\ pc' = "show"

\* python annotator.py image.tif, up to the event loop
Start ==
  /\ pc = "main"
  /\ n_runs < lim.runs
  /\ Begin(load_existing(file), rasterio_open(image))
  /\ n_events' = 0
  /\ n_view' = 0
  /\ n_ignored' = 0
  /\ log' = <<>>
  /\ UNCHANGED <<argv, image, file, n_runs, file0, sessions, lim>>

\* button_press_event
PointerPress ==
  /\ pc = "show"
  /\ \E inaxes \in BOOLEAN, button \in Buttons, at \in lim.positions :
       LET bound == inaxes /\ button \in {1, 3}
       IN  /\ n_events < lim.events
           /\ bound /\ button = 1 => Len(CurrentSegment(annotator)) < lim.seglen
           /\ annotator' = on_click(annotator,
                [inaxes |-> inaxes, button |-> button,
                 xdata |-> at[1], ydata |-> at[2]])
           /\ n_events' = n_events + 1
           /\ n_ignored' = IF bound THEN n_ignored ELSE n_ignored + 1
           /\ log' = IF ~lim.log \/ ~bound THEN log
                     ELSE IF button = 1 THEN Append(log, Entry("add", at))
                     ELSE Append(log, Entry("undo", <<0, 0>>))
  /\ UNCHANGED <<argv, image, file, pc, existing_segments, n_runs, n_view, file0,
                 sessions, lim>>

\* key_press_event; Enter closes the figure, which ends plt.show()
KeyPress ==
  /\ pc = "show"
  /\ \E key \in Keys :
       /\ key \notin {"enter", "return"} => n_events < lim.events
       /\ key \in ViewKeys => n_view < lim.view
       /\ annotator' = on_key(annotator, key)
       /\ n_events' = IF key \in {"enter", "return"} THEN n_events ELSE n_events + 1
       /\ n_view' = IF key \in ViewKeys THEN n_view + 1 ELSE n_view
       /\ n_ignored' = IF key \notin BoundKeys THEN n_ignored + 1 ELSE n_ignored
       /\ log' = IF ~lim.log THEN log
                 ELSE IF key \in {"z", "Z"} THEN Append(log, Entry("undo", <<0, 0>>))
                 ELSE IF key = " " THEN Append(log, Entry("space", <<0, 0>>))
                 ELSE IF key \in {"enter", "return"}
                   THEN Append(log, Entry("enter", <<0, 0>>))
                 ELSE log
  /\ pc' = IF annotator'.open THEN "show" ELSE "closed"
  /\ UNCHANGED <<argv, image, file, existing_segments, n_runs, file0, sessions,
                 lim>>

\* the user closes the window: plt.show() returns as well
CloseWindow ==
  /\ pc = "show"
  /\ annotator' = [annotator EXCEPT !.open = FALSE]
  /\ pc' = "closed"
  /\ UNCHANGED <<argv, image, file, existing_segments, n_runs, n_events, n_view,
                 n_ignored, log, file0, sessions, lim>>

\* annotate() returns, annotate_image combines, __main__ writes the file
Finish ==
  /\ pc = "closed"
  /\ file' = FileOf(combine(existing_segments, annotator))
  /\ image' = IF output_file(argv) = argv THEN file' ELSE image
  /\ sessions' = Append(sessions, Segments(annotator))
  /\ n_runs' = n_runs + 1
  /\ pc' = "main"
  /\ UNCHANGED <<argv, existing_segments, annotator, n_events, n_view,
                 n_ignored, log, file0, lim>>

Next == Start \/ PointerPress \/ KeyPress \/ CloseWindow \/ Finish

Limits(runs, events, view, seglen, positions, logging) ==
  [runs |-> runs, events |-> events, view |-> view,
   seglen |-> seglen, positions |-> positions, log |-> logging]

Saved(n) == FileOf(Feature(MultiLineString(PriorSegments(n))))

\* one session, every event
Init ==
  InitWith({NoFile, Saved(1)},
           Limits(1, MaxEvents, MaxView, MaxEvents, Positions, TRUE))

Spec == Init /\ [][Next]_vars

\* consecutive runs
DriverInit ==
  InitWith({NoFile, FileOf(Feature(JNull)), Saved(2)},
           Limits(MaxRuns, MaxRunEvents, 0, MaxRunEvents, {<<1, 5>>}, FALSE))

DriverSpec == DriverInit /\ [][Next]_vars

\* one run over every kind of file
LoadInit ==
  InitWith(OtherFiles \cup SavedFiles,
           Limits(1, MaxLoadEvents, 0, MaxLoadEvents, {<<1, 5>>}, FALSE))

LoadSpec == LoadInit /\ [][Next]_vars

\* one long session of short segments
CycleInit ==
  InitWith({Saved(3)},
           Limits(1, MaxCycleEvents, 0, MaxCycleLen, {<<1, 5>>}, FALSE))

CycleSpec == CycleInit /\ [][Next]_vars

\* one session of zoom, pan and reset keys among the other events
ViewInit ==
  InitWith({NoFile},
           Limits(1, MaxViewEvents, MaxViewEvents, 1, {<<1, 5>>}, FALSE))

ViewSpec == ViewInit /\ [][Next]_vars

\* the paths the program is started with
Paths ==
  {ImagePath,
   <<"m", ".", "t", "i", "f", "f">>,
   <<"m", ".", "t", "i", "f", "\n">>,
   <<"m", ".", "T", "I", "F">>,
   <<"m", ".", "p", "n", "g">>,
   <<"m", ".", "t", "i", "f", ".", "b", "a", "k">>,
   <<"t", "i", "f">>}

\* runs on every path; an image whose path is also the output path is the
\* file the first run loads
PathInit ==
  /\ argv \in Paths
  /\ image = RasterImage
  /\ file = (IF output_file(argv) = argv THEN image ELSE NoFile)
  /\ file0 = file
  /\ pc = "main"
  /\ existing_segments = <<>>
  /\ annotator = Blank
  /\ n_runs = 0
  /\ n_events = 0
  /\ n_view = 0
  /\ n_ignored = 0
  /\ log = <<>>
  /\ sessions = <<>>
  /\ lim = Limits(MaxRuns, MaxPathEvents, 0, MaxPathEvents, {<<1, 5>>}, FALSE)

PathSpec == PathInit /\ [][Next]_vars

\* ------------------------------------------------------------- the claims
Last(q) == q[Len(q)]

InSession == pc \in {"show", "closed"}

\* the integer nearest to each pointer position of Positions
Nearest(at) == IF at = <<1, 5>> THEN <<0, 2>> ELSE <<2, 4>>

\* What a log of editing events asks for: the segments completed and the
\* segment in progress
RECURSIVE Asked(_, _, _, _)
Asked(events, i, done, cur) ==
  IF i > Len(events) THEN [done |-> done, cur |-> cur]
  ELSE CASE events[i].ev = "add" ->
              Asked(events, i + 1, done, Append(cur, Nearest(events[i].at)))
         [] events[i].ev = "undo" ->
              Asked(events, i + 1, done,
                    IF cur = <<>> THEN cur ELSE SubSeq(cur, 1, Len(cur) - 1))
         [] OTHER ->
              IF cur = <<>> THEN Asked(events, i + 1, done, cur)
              ELSE Asked(events, i + 1, Append(done, cur), <<>>)

AskedSegments(events) == Asked(events, 1, <<>>, <<>>).done

\* the number of "add" entries right before the last entry of the log
RECURSIVE AddsBefore(_, _)
AddsBefore(events, i) ==
  IF i >= 1 /\ events[i].ev = "add" THEN 1 + AddsBefore(events, i - 1) ELSE 0

\* the log ends with k >= 1 AddPoint calls on an empty current segment and
\* one CompleteSegment
AddsThenComplete ==
  /\ Len(log) >= 2
  /\ Last(log).ev \in {"space", "enter"}
  /\ LET k == AddsBefore(log, Len(log) - 1)
     IN  /\ k >= 1
         /\ Len(log) = k + 1 \/ log[Len(log) - k - 1].ev = "space"

TrailingAdds ==
  LET k == AddsBefore(log, Len(log) - 1)
  IN  [i \in 1..k |-> Nearest(log[Len(log) - 1 - k + i].at)]

RECURSIVE Flatten(_)
Flatten(ss) == IF ss = <<>> THEN <<>> ELSE Head(ss) \o Flatten(Tail(ss))

IsPrefix(p, q) == Len(p) <= Len(q) /\ SubSeq(q, 1, Len(p)) = p

\* C1: in every state of a session the current segment has as many points as
\* there are handles in the marker list.
C1_ParallelBuffers ==
  InSession => Len(CurrentSegment(annotator)) = Len(annotator.markers)

\* C2: after AddPoint calls from an empty current segment and one
\* CompleteSegment, the segment appended last is the list of the rounded
\* positions, in order, and the current segment and the marker list are empty.
C2_CompleteMovesSegment ==
  (InSession /\ lim.log /\ AddsThenComplete) =>
     /\ Segments(annotator) # <<>>
     /\ Last(Segments(annotator)) = TrailingAdds
     /\ CurrentSegment(annotator) = <<>>
     /\ annotator.markers = <<>>

\* C3: when the session ends by Enter, the geometry it returns is, in order,
\* the non-empty runs of added and not undone points that space and the final
\* Enter delimit, and the current segment is empty.
C3_EnterKeepsEveryPoint ==
  (pc = "closed" /\ lim.log /\ log # <<>> /\ Last(log).ev = "enter") =>
     /\ coordinates(annotate_return(annotator)) = AskedSegments(log)
     /\ CurrentSegment(annotator) = <<>>

C3_Witness ==
  /\ pc = "closed"
  /\ log = <<Entry("add", <<1, 5>>), Entry("add", <<3, 7>>),
             Entry("space", <<0, 0>>), Entry("add", <<1, 5>>),
             Entry("enter", <<0, 0>>)>>
  /\ coordinates(annotate_return(annotator))
       = <<<<<<0, 2>>, <<2, 4>>>>, <<<<0, 2>>>>>>

\* C4: the file a run writes holds the segments it loaded followed by the
\* segments of its session, reading the file back gives that list, and so
\* after any number of runs the file holds what the first run loaded followed
\* by the segments of every session, in order.
C4_FileAccumulates ==
  (pc = "main" /\ n_runs >= 1) =>
     /\ file.exists
     /\ load_existing(file).exc = ""
     /\ load_existing(file).segments = existing_segments \o Last(sessions)
     /\ load_existing(file).segments
          = load_existing(file0).segments \o Flatten(sessions)

C4_Witness ==
  /\ pc = "main"
  /\ n_runs = 2
  /\ file0 = Saved(2)
  /\ Len(sessions[1]) = 2
  /\ Len(sessions[2]) >= 1
  /\ Len(load_existing(file).segments) = 4 + Len(sessions[2])

\* C5: from every state of a session, AddPoint(p) followed by
\* RemoveLastPoint() gives back the current segment and the marker list, and
\* leaves the completed segments and the colour index as they were.
C5_RemoveUndoesAdd ==
  InSession =>
    \A at \in Positions :
      LET b == remove_last_point(add_point(annotator, at[1], at[2]))
      IN  /\ CurrentSegment(b) = CurrentSegment(annotator)
          /\ b.current_segment = annotator.current_segment
          /\ b.markers = annotator.markers
          /\ b.lines = annotator.lines
          /\ Segments(b) = Segments(annotator)
          /\ b.current_color_index = annotator.current_color_index

\* a completed segment, then a point added and removed by the handlers
C5_Witness ==
  /\ pc = "show"
  /\ Len(log) = 4
  /\ log[3].ev = "add" /\ log[4].ev = "undo"
  /\ Segments(annotator) # <<>>
  /\ annotator.markers # <<>>
  /\ CurrentSegment(annotator) = <<>>

\* C6: a CompleteSegment on an empty current segment (space, or the
\* CompleteSegment of Enter) changes neither the completed segments, the
\* current segment, the marker list nor the colour index.
C6_EmptyCompleteIsNoOp ==
  [][(/\ pc = "show"
      /\ CurrentSegment(annotator) = <<>>
      /\ Len(log') = Len(log) + 1
      /\ Last(log').ev \in {"space", "enter"})
     => /\ annotator'.segments = annotator.segments
        /\ Segments(annotator') = Segments(annotator)
        /\ annotator'.current_segment = annotator.current_segment
        /\ CurrentSegment(annotator') = <<>>
        /\ annotator'.markers = annotator.markers
        /\ annotator'.current_color_index = annotator.current_color_index]_vars

\* space pressed twice in a row after a segment
C6_Witness ==
  /\ pc = "show"
  /\ Len(log) >= 3
  /\ log[Len(log) - 1].ev = "space" /\ Last(log).ev = "space"
  /\ Len(Segments(annotator)) = 1

\* C7: the session starts with the colour index (number of prior segments)
\* mod the size of the palette of the session controller.
C7_SeedModuloPalette ==
  (pc = "show" /\ n_events = 0) =>
     annotator.current_color_index = Len(existing_segments) % Len(self_colors)

\* C8: a file that is missing, unparseable or without a multi-segment line
\* geometry never ends the run: the prior list is empty, the session runs and
\* the geometry written is the segments of the session alone.
C8_LoadNeverAborts ==
  /\ [](file0 \in OtherFiles =>
          /\ pc # "aborted"
          /\ InSession => existing_segments = <<>>
          /\ (pc = "main" /\ n_runs = 1) =>
                (load_existing(file).segments = sessions[1]))
  /\ [][(file0 \in OtherFiles /\ pc = "main" /\ n_runs = 0) => pc' = "show"]_vars

\* a feature with a null geometry, and a session that drew a segment
C8_Witness ==
  /\ file0 = FileOf(Feature(JNull))
  /\ pc = "main"
  /\ n_runs = 1
  /\ Len(sessions[1]) = 1
  /\ load_existing(file).segments = sessions[1]

\* C9: the completed segments only grow, a completed segment keeps its
\* points, and the list of the current segment is none of the completed lists.
C9_CompletedWriteOnce ==
  /\ [](InSession =>
          /\ \A i \in 1..Len(annotator.segments) :
               annotator.segments[i] # annotator.current_segment
          /\ \A i, j \in 1..Len(annotator.segments) :
               annotator.segments[i] = annotator.segments[j] => i = j)
  /\ [][pc = "show" =>
          /\ IsPrefix(annotator.segments, annotator'.segments)
          /\ IsPrefix(Segments(annotator), Segments(annotator'))]_vars

\* a segment completed, then a point added and one removed
C9_Witness ==
  /\ pc = "show"
  /\ Len(log) = 4
  /\ log[2].ev = "space" /\ log[3].ev = "add" /\ log[4].ev = "undo"
  /\ Segments(annotator) = <<<<Nearest(log[1].at)>>>>

\* C10: the colour index is the starting index plus the number of completed
\* segments, modulo the palette size, so that it is back at its start after
\* palette-size completions; and it changes only in a step that completes a
\* non-empty segment.
C10_ColorCycles ==
  /\ [](InSession =>
          annotator.current_color_index
            = (seed_color_index(existing_segments) + Len(annotator.segments))
                % Len(self_colors))
  /\ [][(pc = "show"
         /\ annotator'.current_color_index # annotator.current_color_index)
        => /\ CurrentSegment(annotator) # <<>>
           /\ Segments(annotator')
                = Append(Segments(annotator), CurrentSegment(annotator))]_vars

\* a palette's worth of segments completed in one session
C10_Witness ==
  /\ pc = "show"
  /\ Len(annotator.segments) = Len(self_colors)
  /\ annotator.current_color_index = seed_color_index(existing_segments)
  /\ annotator.current_color_index # 0

\* the session ended by the window being closed, not by Enter
ClosedByWindow == pc = "closed" /\ (log = <<>> \/ Last(log).ev # "enter")

\* C11: when the session ends without Enter (the window is closed), the
\* geometry returned is the segments completed so far, none of the points of
\* the segment in progress is in it, and the file written holds no more.
C11_ClosedWindowLosesPending ==
  /\ [](ClosedByWindow /\ lim.log =>
          /\ coordinates(annotate_return(annotator)) = AskedSegments(log)
          /\ coordinates(annotate_return(annotator)) = Segments(annotator)
          /\ CurrentSegment(annotator) = Asked(log, 1, <<>>, <<>>).cur
          /\ Len(Flatten(coordinates(annotate_return(annotator))))
               + Len(CurrentSegment(annotator))
               = Len(Flatten(AskedSegments(log)))
                   + Len(Asked(log, 1, <<>>, <<>>).cur))
  /\ [][(ClosedByWindow /\ pc' = "main") =>
          load_existing(file').segments
            = existing_segments \o Segments(annotator)]_vars

\* the window closed with a segment completed and two points pending
C11_Witness ==
  /\ ClosedByWindow
  /\ Len(Segments(annotator)) = 1
  /\ Len(CurrentSegment(annotator)) = 2
  /\ coordinates(annotate_return(annotator)) = <<<<Nearest(log[1].at)>>>>

\* average(initialSpanX / currentSpanX, initialSpanY / currentSpanY) of the
\* stored initial limits and the current limits, in the floats of the program
SpanOf(limits) == FSub(limits[2], limits[1])

Average(x, y) == FDiv(FAdd(x, y), <<2, 1>>)

AverageZoom(a) ==
  Average(FDiv(SpanOf(a.initial_xlim), SpanOf(a.xlim)),
          FDiv(SpanOf(a.initial_ylim), SpanOf(a.ylim)))

ZoomKeys == {"+", "=", "-"}
PanKeys == {"w", "s", "a", "d"}

\* what C12 says of the handlers of the view keys, applied to the state
PanKeepsZoomLevel(a) ==
  \A key \in PanKeys :
    /\ on_key(a, key).zoom_level = a.zoom_level
    /\ on_key(a, key).initial_xlim = a.initial_xlim
    /\ on_key(a, key).initial_ylim = a.initial_ylim

ResetRecaptures(a) ==
  /\ on_key(a, "h").initial_xlim = on_key(a, "h").xlim
  /\ on_key(a, "h").initial_ylim = on_key(a, "h").ylim
  /\ on_key(a, "h").zoom_level = <<1, 1>>
  /\ AverageZoom(on_key(a, "h")) = <<1, 1>>

ZoomRecomputes(a) ==
  \A key \in ZoomKeys :
    /\ on_key(a, key).zoom_level = AverageZoom(on_key(a, key))
    /\ on_key(a, key).initial_xlim = a.initial_xlim
    /\ on_key(a, key).initial_ylim = a.initial_ylim

\* C12 as stated: in every state of a session the zoom level is the average of
\* the span ratios of the initial and the current limits, a pan never changes
\* it, and 'h' makes the current limits the initial ones and the level 1.0.
C12_ZoomLevelDerived ==
  pc = "show" =>
    /\ annotator.zoom_level = AverageZoom(annotator)
    /\ PanKeepsZoomLevel(annotator)
    /\ ResetRecaptures(annotator)


\* C12, amended: the zoom level is the average of the span ratios as of the
\* last zoom: 1.0 at the start, set by every zoom key to the average of the
\* initial and the new limits, set by 'h' to 1.0 with the current limits as the
\* initial ones, and never changed by a pan (whose rounding may change a span).
C12_ZoomLevelAsOfLastZoom ==
  /\ [](pc = "show" =>
          /\ n_view = 0 => /\ annotator.zoom_level = <<1, 1>>
                           /\ AverageZoom(annotator) = <<1, 1>>
          /\ ZoomRecomputes(annotator)
          /\ PanKeepsZoomLevel(annotator)
          /\ ResetRecaptures(annotator))
  /\ [][(pc = "show" /\ pc' = "show") =>
          \/ annotator'.zoom_level = annotator.zoom_level
          \/ annotator'.zoom_level = AverageZoom(annotator')]_vars

\* a zoom, then pans after which the stored level is not the recomputed average
C12_Witness ==
  /\ pc = "show"
  /\ n_view = MaxViewEvents
  /\ annotator.zoom_level # <<1, 1>>
  /\ annotator.zoom_level # AverageZoom(annotator)
  /\ annotator.initial_xlim = FullXlim


\* exact arithmetic on the rationals the floats denote
QAdd(x, y) == Q(x[1] * y[2] + y[1] * x[2], x[2] * y[2])
QSub(x, y) == Q(x[1] * y[2] - y[1] * x[2], x[2] * y[2])
QMul(x, y) == Q(x[1] * y[1], x[2] * y[2])
QDiv(x, y) == Q(x[1] * y[2], x[2] * y[1])
QAbs(x) == <<Abs(x[1]), x[2]>>
QLeq(x, y) == x[1] * y[2] <= y[1] * x[2]
QMax(x, y) == IF QLeq(x, y) THEN y ELSE x

ExactSpan(limits) == QSub(limits[2], limits[1])
ExactMid(limits) == QDiv(QAdd(limits[1], limits[2]), <<2, 1>>)

\* the largest absolute value among the bounds of two extents of one axis
Magnitude(l1, l2) ==
  QMax(QMax(QAbs(l1[1]), QAbs(l1[2])), QMax(QAbs(l2[1]), QAbs(l2[2])))

\* |x - y| <= k * 2^-MantissaBits * m: x is y to within k roundings at size m
Within(x, y, k, m) ==
  QLeq(QMul(QAbs(QSub(x, y)), <<Pow2(MantissaBits), 1>>), QMul(<<k, 1>>, m))

\* Pan(0.1, 0) is the key 'd', Pan(-0.1, 0) the key 'a'
PanRight(a) == on_key(a, "d")
PanRightLeft(a) == on_key(on_key(a, "d"), "a")

\* the extent l1 is the extent l0 shifted by frac times the span of l0
ShiftedExactly(l0, l1, frac) ==
  \A i \in 1..2 : l1[i] = QAdd(l0[i], QMul(frac, ExactSpan(l0)))

ShiftedWithin(l0, l1, frac, k) ==
  \A i \in 1..2 :
    Within(l1[i], QAdd(l0[i], QMul(frac, ExactSpan(l0))), k, Magnitude(l0, l1))

RestoredWithin(l0, l1, k, m) ==
  \A i \in 1..2 : Within(l1[i], l0[i], k, m)

\* C13 as stated: a pan shifts both bounds of an axis by frac times its span,
\* the span staying what it was, Pan(0.1, 0) then Pan(-0.1, 0) gives back
\* the bounds of x exactly, and the bounds of y are never touched.
C13_PanRestoresExactly ==
  pc = "show" =>
    /\ ShiftedExactly(annotator.xlim, PanRight(annotator).xlim, <<1, 10>>)
    /\ ExactSpan(PanRight(annotator).xlim) = ExactSpan(annotator.xlim)
    /\ PanRightLeft(annotator).xlim = annotator.xlim
    /\ PanRight(annotator).ylim = annotator.ylim
    /\ PanRightLeft(annotator).ylim = annotator.ylim


\* the pan of a key moves its axis by its fraction of the span, to within
\* rounding, keeps the span to within rounding, and leaves the other axis alone
PanMovesX(a, key, frac) ==
  /\ ShiftedWithin(a.xlim, on_key(a, key).xlim, frac, 4)
  /\ Within(ExactSpan(on_key(a, key).xlim), ExactSpan(a.xlim), 4,
            Magnitude(a.xlim, on_key(a, key).xlim))
  /\ on_key(a, key).ylim = a.ylim

PanMovesY(a, key, frac) ==
  /\ ShiftedWithin(a.ylim, on_key(a, key).ylim, frac, 4)
  /\ Within(ExactSpan(on_key(a, key).ylim), ExactSpan(a.ylim), 4,
            Magnitude(a.ylim, on_key(a, key).ylim))
  /\ on_key(a, key).xlim = a.xlim

\* C13, amended: a pan shifts both bounds of its axis by frac times the span
\* and keeps the span, each to within floating-point rounding, with no
\* clamping; Pan(0.1, 0) then Pan(-0.1, 0) gives back the bounds of x to within
\* rounding, and the bounds of y are exactly what they were throughout.
C13_PanRestoresWithinRounding ==
  pc = "show" =>
    /\ PanMovesX(annotator, "d", <<1, 10>>)
    /\ PanMovesX(annotator, "a", <<-1, 10>>)
    /\ PanMovesY(annotator, "w", <<1, 10>>)
    /\ PanMovesY(annotator, "s", <<-1, 10>>)
    /\ RestoredWithin(annotator.xlim, PanRightLeft(annotator).xlim, 4,
                      Magnitude(annotator.xlim, PanRight(annotator).xlim))
    /\ PanRightLeft(annotator).ylim = annotator.ylim

\* panned past the right edge of the image, where there and back is inexact
C13_Witness ==
  /\ pc = "show"
  /\ n_view >= 2
  /\ ~QLeq(annotator.xlim[2], FullXlim[2])
  /\ PanRightLeft(annotator).xlim # annotator.xlim
  /\ PanRightLeft(annotator).ylim = annotator.ylim


\* Zoom(1.2) is the key '+', Zoom(0.8) the key '-'; no key gives Zoom(1/1.2)
ZoomIn(a) == on_key(a, "+")
ZoomInOut(a) == zoom(on_key(a, "+"), FDiv(<<1, 1>>, Float(<<6, 5>>)))

ZoomedExactly(l0, l1, factor) ==
  /\ ExactSpan(l1) = QDiv(ExactSpan(l0), factor)
  /\ ExactMid(l1) = ExactMid(l0)

ZoomedWithin(l0, l1, factor, k) ==
  /\ Within(ExactSpan(l1), QDiv(ExactSpan(l0), factor), k, Magnitude(l0, l1))
  /\ Within(ExactMid(l1), ExactMid(l0), k, Magnitude(l0, l1))

\* C14 as stated: a zoom divides the span of each axis by the factor and
\* keeps its midpoint, and Zoom(1.2) then Zoom(1/1.2) gives back both bounds
\* of both axes.
C14_ZoomRestoresExactly ==
  pc = "show" =>
    /\ ZoomedExactly(annotator.xlim, ZoomIn(annotator).xlim, <<6, 5>>)
    /\ ZoomedExactly(annotator.ylim, ZoomIn(annotator).ylim, <<6, 5>>)
    /\ ZoomedExactly(annotator.xlim, on_key(annotator, "-").xlim, <<4, 5>>)
    /\ ZoomedExactly(annotator.ylim, on_key(annotator, "-").ylim, <<4, 5>>)
    /\ ZoomInOut(annotator).xlim = annotator.xlim
    /\ ZoomInOut(annotator).ylim = annotator.ylim

\* C14, amended: a zoom divides the span of each axis by the factor and keeps
\* its midpoint, each to within floating-point rounding, and Zoom(1.2) then
\* Zoom(1/1.2) gives back both bounds of both axes to within rounding.
C14_ZoomRestoresWithinRounding ==
  pc = "show" =>
    /\ ZoomedWithin(annotator.xlim, ZoomIn(annotator).xlim, <<6, 5>>, 8)
    /\ ZoomedWithin(annotator.ylim, ZoomIn(annotator).ylim, <<6, 5>>, 8)
    /\ ZoomedWithin(annotator.xlim, on_key(annotator, "-").xlim, <<4, 5>>, 8)
    /\ ZoomedWithin(annotator.ylim, on_key(annotator, "-").ylim, <<4, 5>>, 8)
    /\ RestoredWithin(annotator.xlim, ZoomInOut(annotator).xlim, 8,
                      Magnitude(annotator.xlim, ZoomIn(annotator).xlim))
    /\ RestoredWithin(annotator.ylim, ZoomInOut(annotator).ylim, 8,
                      Magnitude(annotator.ylim, ZoomIn(annotator).ylim))

\* zoomed and panned off centre, where in and out again is inexact
C14_Witness ==
  /\ pc = "show"
  /\ n_view >= 2
  /\ annotator.zoom_level # <<1, 1>>
  /\ ExactMid(annotator.xlim) # ExactMid(FullXlim)
  /\ ZoomInOut(annotator).xlim # annotator.xlim
  /\ ZoomInOut(annotator).ylim # annotator.ylim


\* C15: whatever the path of the image, the file a run has read for resumption
\* and written at its end is at another path, and the image is still the raster.
C15_OutputPathDiffers ==
  (pc = "main" /\ n_runs >= 1) =>
     /\ output_file(argv) # argv
     /\ image = RasterImage


Press(inaxes, button, at) ==
  [inaxes |-> inaxes, button |-> button, xdata |-> at[1], ydata |-> at[2]]

AllButLast(q) == SubSeq(q, 1, Len(q) - 1)

\* C16: a press outside the axes, a press of a button other than left and
\* right and a key bound to nothing leave the annotator and the session as
\* they are; a left press inside adds one point, the rounded position, and a
\* right press inside removes the last point of the current segment.
C16_UnboundInputIgnored ==
  /\ [](pc = "show" =>
          /\ \A button \in Buttons, at \in Positions :
               on_click(annotator, Press(FALSE, button, at)) = annotator
          /\ \A at \in Positions :
               on_click(annotator, Press(TRUE, 2, at)) = annotator
          /\ \A key \in Keys \ BoundKeys : on_key(annotator, key) = annotator
          /\ \A at \in Positions :
               /\ CurrentSegment(on_click(annotator, Press(TRUE, 1, at)))
                    = Append(CurrentSegment(annotator), Nearest(at))
               /\ Segments(on_click(annotator, Press(TRUE, 1, at)))
                    = Segments(annotator)
               /\ CurrentSegment(on_click(annotator, Press(TRUE, 3, at)))
                    = AllButLast(CurrentSegment(annotator))
               /\ Segments(on_click(annotator, Press(TRUE, 3, at)))
                    = Segments(annotator))
  /\ [][n_ignored' = n_ignored + 1 => annotator' = annotator /\ pc' = pc]_vars
  /\ [][(pc = "show" /\ Len(log') = Len(log) + 1 /\ Last(log').ev = "add") =>
          /\ CurrentSegment(annotator')
               = Append(CurrentSegment(annotator), Nearest(Last(log').at))
          /\ Len(annotator'.markers) = Len(annotator.markers) + 1
          /\ Segments(annotator') = Segments(annotator)]_vars
  /\ [][(pc = "show" /\ Len(log') = Len(log) + 1 /\ Last(log').ev = "undo") =>
          /\ CurrentSegment(annotator') = AllButLast(CurrentSegment(annotator))
          /\ Segments(annotator') = Segments(annotator)]_vars

\* a point added, then unbound events, and the point is still the segment
C16_Witness ==
  /\ pc = "show"
  /\ n_events = 4
  /\ n_ignored = 2
  /\ log = <<Entry("add", <<1, 5>>), Entry("add", <<3, 7>>)>>
  /\ CurrentSegment(annotator) = <<<<0, 2>>, <<2, 4>>>>
  /\ Len(annotator.markers) = 2


\* every point the session holds, in the order it was added
PointsHeld(a) == Flatten(Segments(a)) \o CurrentSegment(a)

\* the marker add_point drew for the point at (x, y)
MarkerOf(marker, point) ==
  marker.fmt = "+" /\ marker.xs = <<point[1]>> /\ marker.ys = <<point[2]>>

\* the markers of the points of the completed segments
CompletedMarkers(a) ==
  {a.markers[i] : i \in 1..Len(Flatten(Segments(a)))}

\* C17: the marker list is, in order of creation, the markers of the points
\* held, all of them drawn; RemoveLastPoint erases the marker that was made for
\* the point it removes and nothing when the current segment is empty, so the
\* marker of a point of a completed segment is never erased.
C17_CompletedMarkersStay ==
  /\ [](InSession =>
          /\ Len(annotator.markers) = Len(PointsHeld(annotator))
          /\ \A i \in 1..Len(annotator.markers) :
               /\ MarkerOf(annotator.markers[i], PointsHeld(annotator)[i])
               /\ annotator.markers[i] \in annotator.lines
          /\ \A i, j \in 1..Len(annotator.markers) :
               i < j => annotator.markers[i].id < annotator.markers[j].id)
  /\ [][(pc = "show" /\ Len(log') = Len(log) + 1 /\ Last(log').ev = "undo") =>
          /\ annotator.lines \ annotator'.lines
               = (IF CurrentSegment(annotator) = <<>> THEN {}
                  ELSE {Last(annotator.markers)})
          /\ CurrentSegment(annotator) # <<>> =>
               /\ MarkerOf(Last(annotator.markers), Last(CurrentSegment(annotator)))
               /\ Last(annotator.markers) \notin CompletedMarkers(annotator)]_vars
  /\ [][pc = "show" =>
          /\ CompletedMarkers(annotator) \subseteq CompletedMarkers(annotator')
          /\ CompletedMarkers(annotator') \subseteq annotator'.lines]_vars

\* RemoveLastPoint right after CompleteSegment: the markers are still drawn
C17_Witness ==
  /\ pc = "show"
  /\ Len(log) = 4
  /\ log[3].ev = "space" /\ log[4].ev = "undo"
  /\ Cardinality(CompletedMarkers(annotator)) = 2
  /\ CompletedMarkers(annotator) \subseteq annotator.lines
  /\ CurrentSegment(annotator) = <<>>


NoEmptySegment(segs) == \A i \in 1..Len(segs) : segs[i] # <<>>

\* C18: every completed segment has at least one point, in every state of a
\* session, and so has every segment of the geometry a session returns and of
\* the list handed to the driver.
C18_NoEmptySegment ==
  /\ InSession => NoEmptySegment(Segments(annotator))
  /\ pc = "closed" => NoEmptySegment(coordinates(annotate_return(annotator)))
  /\ NoEmptySegment(Flatten(sessions))

\* add, undo, space, then a point and Enter: one segment of one point
C18_Witness ==
  /\ pc = "closed"
  /\ Len(log) = 5
  /\ log[1].ev = "add" /\ log[2].ev = "undo" /\ log[3].ev = "space"
  /\ log[4].ev = "add" /\ log[5].ev = "enter"
  /\ coordinates(annotate_return(annotator)) = <<<<Nearest(log[4].at)>>>>


\* the state of the geometry, and the baseline of the view
EditState(a) ==
  <<a.heap, a.segments, a.current_segment, a.markers, a.current_color_index,
    a.lines, a.n_lines>>

ViewBaseline(a) == <<a.initial_xlim, a.initial_ylim, a.zoom_level>>

\* C19: the zoom, pan and reset keys leave the current segment, the markers,
\* the completed segments and the colour index as they are, and AddPoint,
\* RemoveLastPoint and CompleteSegment leave the initial limits and the zoom
\* level as they are.
C19_ViewAndEditIndependent ==
  /\ [](pc = "show" =>
          /\ \A key \in ViewKeys :
               EditState(on_key(annotator, key)) = EditState(annotator)
          /\ \A at \in Positions :
               ViewBaseline(add_point(annotator, at[1], at[2]))
                 = ViewBaseline(annotator)
          /\ ViewBaseline(remove_last_point(annotator)) = ViewBaseline(annotator)
          /\ ViewBaseline(complete_segment(annotator)) = ViewBaseline(annotator))
  /\ [][(pc = "show" /\ n_view' = n_view + 1) =>
          EditState(annotator') = EditState(annotator)]_vars
  /\ [][(pc = "show" /\ n_view' = n_view) =>
          ViewBaseline(annotator') = ViewBaseline(annotator)]_vars

\* a point added, then the view zoomed and panned, the point still pending
C19_Witness ==
  /\ pc = "show"
  /\ n_events = 3
  /\ n_view = 2
  /\ Len(CurrentSegment(annotator)) = 1
  /\ Len(annotator.markers) = 1
  /\ annotator.zoom_level # <<1, 1>>
  /\ ExactMid(annotator.xlim) # ExactMid(annotator.initial_xlim)


\* the colours of the markers of the j-th completed segment
SegmentColours(a, j) ==
  {a.markers[Len(Flatten(SubSeq(Segments(a), 1, j - 1))) + k].color :
     k \in 1..Len(Segments(a)[j])}

\* the colours of the markers of the segment in progress
CurrentColours(a) ==
  {a.markers[Len(Flatten(Segments(a))) + k].color :
     k \in 1..Len(CurrentSegment(a))}

ValidIndex(i) == 0 <= i /\ i < Len(self_colors)

\* C20: the colour index is an index of the palette of the annotator, whatever
\* the number of prior segments it is seeded with and whatever the events; the
\* markers of one segment have one colour, the colour at the index, and two
\* segments completed one after the other have different colours.
C20_ColourIndexValid ==
  /\ \A n \in 0..MaxPrior :
       /\ ValidIndex(new_annotator(PriorSegments(n)).current_color_index)
       /\ ValidIndex(complete_segment(
            add_point(new_annotator(PriorSegments(n)), 1, 5)).current_color_index)
  /\ InSession =>
       /\ ValidIndex(annotator.current_color_index)
       /\ CurrentColours(annotator)
            \subseteq {self_colors[annotator.current_color_index + 1]}
       /\ \A j \in 1..Len(annotator.segments) :
            Cardinality(SegmentColours(annotator, j)) = 1
       /\ \A j \in 1..(Len(annotator.segments) - 1) :
            SegmentColours(annotator, j) \cap SegmentColours(annotator, j + 1) = {}

\* a session seeded by one prior segment that completed a segment of two
\* points and then another segment
C20_Witness ==
  /\ pc = "closed"
  /\ Len(existing_segments) = 1
  /\ Len(Segments(annotator)) = 2
  /\ Len(Segments(annotator)[1]) = 2
  /\ SegmentColours(annotator, 1) = {"red"}
  /\ SegmentColours(annotator, 2) = {"blue"}
  /\ annotator.current_color_index = 3

====
